---- MODULE Spec2Model ----
(***************************************************************************)
(* Model of dashboard_final.py: a Streamlit script that loads an incident  *)
(* table and a boundary file through two st.cache_data loaders, reads      *)
(* three sidebar widgets, filters the table, aggregates it and renders     *)
(* metrics, charts and tables.  One execution of the script, top to        *)
(* bottom, is one step of the model.                                       *)
(*                                                                         *)
(* Numbers that pandas holds as floats (mean, quantiles, merged values)    *)
(* are exact fractions here: [nan, num, den].                              *)
(***************************************************************************)
EXTENDS Integers, Sequences, FiniteSets, TLC

\* ------------------------------------------------------------------ bounds
\* Largest number of localities, indicators and years in a modelled table.
NumLocalidades == 11
NumIndicadores == 4
NumAnos == 2
\* Positions at which two neighbouring totals are made equal (0: no tie).
MaxEmpate == 2
\* A multiselect holds at most MaxPocos options, or all but at most MaxPocos.
MaxPocos == 1
\* The runs are followed until a loader has read its file MaxLecturas times.
MaxLecturas == 2

\* --------------------------------------------------------- program constants
\* .head(10) of the ranking table and .head(3) of the indicator chart.
TopLocalidades == 10
TopIndicadores == 3

\* ------------------------------------------------------------------- state
VARIABLES
    archivoDatos,     \* datos_limpios.csv on the disk
    archivoMapa,      \* localidades_bogota.geojson on the disk
    cacheDatos,       \* what st.cache_data holds for cargar_datos
    cacheMapa,        \* what st.cache_data holds for cargar_mapa
    lecturas,         \* how often each loader has read its file from the
                      \* disk, whether the read ended well or not
    ultima,           \* the last run's call of each loader: "none" (not
                      \* called), "miss", "hit", "hit_stale" (a hit while
                      \* the file held something else), "unavailable" (no
                      \* file), "unreadable" (a file that does not parse)
    pc,               \* "inicio", "done" (the run reached its end), "error"
    pagina,           \* what the last run has rendered
    df, gdf,
    ano_sel, indicador_sel, localidad_sel,
    df_filtrado, total_delitos, num_localidades, num_indicadores,
    df_mapa, gdf_mapa, df_bar, df_delitos, df_time, max_row,
    media, mediana, vlines, q1, q3, iqr, limite_superior, outliers

\* ------------------------------------------------------------------- names
\* Locality names, normalised (upper case, no surrounding blanks).
Localidades ==
    << "BARRIOS UNIDOS", "BOSA", "CANDELARIA", "CHAPINERO", "CIUDAD BOLIVAR",
       "ENGATIVA", "FONTIBON", "KENNEDY", "LOS MARTIRES", "PUENTE ARANDA",
       "RAFAEL URIBE URIBE", "SAN CRISTOBAL", "SANTA FE", "SUBA" >>

\* The same localities as a boundary file or a table may spell them.
Crudas ==
    << "Barrios Unidos", " Bosa ", "Candelaria", " Chapinero ", "Ciudad Bolivar",
       " Engativa ", "Fontibon", " Kennedy ", "Los Martires", " Puente Aranda ",
       "Rafael Uribe Uribe", " San Cristobal ", "Santa Fe", " Suba " >>

Indicadores ==
    << "DELITOS SEXUALES", "EXTORSION", "HOMICIDIOS", "HURTO A PERSONAS",
       "HURTO DE BICICLETAS", "LESIONES PERSONALES", "VIOLENCIA INTRAFAMILIAR" >>

\* Every string of the model in the order Python compares strings (by code
\* point: blank < upper case < lower case).
OrdenCadenas ==
    << " Bosa ", " Chapinero ", " Engativa ", " Kennedy ", " Puente Aranda ",
       " San Cristobal ", " Suba ", "BARRIOS UNIDOS", "BOSA", "Barrios Unidos",
       "CANDELARIA", "CHAPINERO", "CIUDAD BOLIVAR", "Candelaria",
       "Ciudad Bolivar", "DELITOS SEXUALES", "ENGATIVA", "EXTORSION",
       "FONTIBON", "Fontibon", "HOMICIDIOS", "HURTO A PERSONAS",
       "HURTO DE BICICLETAS", "KENNEDY", "LESIONES PERSONALES", "LOS MARTIRES",
       "Los Martires", "PUENTE ARANDA", "RAFAEL URIBE URIBE",
       "Rafael Uribe Uribe", "SAN CRISTOBAL", "SANTA FE", "SUBA", "Santa Fe",
       "VIOLENCIA INTRAFAMILIAR" >>

\* ----------------------------------------------------------------- helpers
Min(a, b) == IF a < b THEN a ELSE b

Posicion(s, x) == CHOOSE k \in DOMAIN s : s[k] = x

\* Python's < on the keys of a column: the years ("Ano") are integers, the
\* other columns hold strings, compared by code point.
Menor(col, x, y) ==
    IF col = "Ano" THEN x < y
    ELSE Posicion(OrdenCadenas, x) < Posicion(OrdenCadenas, y)

\* sorted(values): the ascending sequence of a set of keys of column col.
RECURSIVE Sorted(_, _)
Sorted(col, S) ==
    IF S = {} THEN << >>
    ELSE LET m == CHOOSE x \in S : \A y \in S \ {x} : Menor(col, x, y)
         IN  << m >> \o Sorted(col, S \ {m})

\* Series.sum(): the sum of a sequence of integers, 0 when it is empty.
RECURSIVE Sum(_)
Sum(s) == IF s = << >> THEN 0 ELSE s[1] + Sum(Tail(s))

\* ---------------------------------------------------------------- fractions
Frac(n, d) == [nan |-> FALSE, num |-> n, den |-> d]
NaN == [nan |-> TRUE, num |-> 0, den |-> 1]

FracEq(x, y) == ~x.nan /\ ~y.nan /\ x.num * y.den = y.num * x.den
\* Any comparison with NaN is False.
FracGt(x, y) == ~x.nan /\ ~y.nan /\ x.num * y.den > y.num * x.den
FracSub(x, y) ==
    IF x.nan \/ y.nan THEN NaN
    ELSE Frac(x.num * y.den - y.num * x.den, x.den * y.den)
FracAdd(x, y) ==
    IF x.nan \/ y.nan THEN NaN
    ELSE Frac(x.num * y.den + y.num * x.den, x.den * y.den)
FracMul(x, y) ==
    IF x.nan \/ y.nan THEN NaN ELSE Frac(x.num * y.num, x.den * y.den)

\* ------------------------------------------------------------ pandas pieces
\* df[df[col].isin(values)]
Isin(frame, col, values) == SelectSeq(frame, LAMBDA r : r[col] \in values)

\* df[df["Ano"] == ano]
AnoIgual(frame, ano) == SelectSeq(frame, LAMBDA r : r.Ano = ano)

\* df[col].unique(), as a set
Unique(frame, col) == { frame[k][col] : k \in DOMAIN frame }

\* df[col].nunique()
Nunique(frame, col) == Cardinality(Unique(frame, col))

\* The column Valor of a frame.
Valores(frame) == [k \in DOMAIN frame |-> frame[k].Valor]

\* df.groupby(col, as_index=False)["Valor"].sum(): one row per key, keys
\* ascending, Valor the sum over the rows of the key.
GroupBySum(frame, col) ==
    LET keys == Sorted(col, Unique(frame, col))
    IN  [k \in DOMAIN keys |->
            (col :> keys[k]) @@
            ("Valor" :> Sum(Valores(SelectSeq(frame, LAMBDA r : r[col] = keys[k]))))]

\* df.sort_values("Valor", ascending=False): the default sort is not stable,
\* so rows of equal Valor come in any order.  The set of possible results.
RECURSIVE Descending(_, _)
Descending(frame, idx) ==
    IF idx = {} THEN { << >> }
    ELSE UNION { { << frame[m] >> \o t : t \in Descending(frame, idx \ {m}) } :
                 m \in { x \in idx : \A y \in idx : frame[y].Valor <= frame[x].Valor } }

SortValuesDesc(frame) == Descending(frame, DOMAIN frame)

\* df.head(n)
HeadRows(frame, n) == SubSeq(frame, 1, Min(n, Len(frame)))

\* The values of a column in ascending order (np.sort), duplicates kept.
RECURSIVE SortInts(_)
SortInts(s) ==
    IF s = << >> THEN << >>
    ELSE LET k == CHOOSE i \in DOMAIN s : \A j \in DOMAIN s : s[i] <= s[j]
         IN  << s[k] >> \o
             SortInts([i \in 1..(Len(s) - 1) |-> IF i < k THEN s[i] ELSE s[i + 1]])

\* Series.mean(): NaN for an empty series.
Mean(s) == IF s = << >> THEN NaN ELSE Frac(Sum(s), Len(s))

\* Series.quantile(k/4) with the default linear interpolation: position
\* (n-1)*k/4 in the sorted values, NaN for an empty series.
Quantile(s, k) ==
    IF s = << >> THEN NaN
    ELSE LET x == SortInts(s)
             p == (Len(s) - 1) * k
             j == (p \div 4) + 1
             r == p % 4
         IN  IF r = 0 THEN Frac(x[j], 1)
             ELSE Frac(4 * x[j] + r * (x[j + 1] - x[j]), 4)

\* Series.median()
Median(s) == Quantile(s, 2)

\* ------------------------------------------------------------- input files
\* Modelled tables: a grid of nl localities x ni indicators x na years, one
\* row per combination, in file order (year, indicator, locality).  Totals
\* grow with the position of the locality and of the indicator; p.e > 0
\* makes positions e and e+1 equal, and p.crudo spells the first locality
\* as a file that is not normalised does.
Perfil(k, e) == IF e > 0 /\ k > e THEN k - 1 ELSE k

NombreLocalidad(l, crudo) == IF crudo /\ l = 1 THEN Crudas[1] ELSE Localidades[l]

Tabla(nl, ni, na, p) ==
    [k \in 1..(nl * ni * na) |->
        LET l == ((k - 1) % nl) + 1
            i == (((k - 1) \div nl) % ni) + 1
            a == ((k - 1) \div (nl * ni)) + 1
        IN  [Ano |-> 2019 + a,
             Indicador |-> Indicadores[i],
             Localidad |-> NombreLocalidad(l, p.crudo),
             Valor |-> (Perfil(l, p.e) - 1) + (Perfil(i, p.e) - 1) + (a - 1)]]

Formas ==
    { << 0, 1, 1 >>, << 1, 1, 1 >>, << 2, 1, NumAnos >>, << 2, 2, NumAnos >>,
      << 1, NumIndicadores, 1 >>, << NumLocalidades, 1, 1 >>,
      << 3, NumIndicadores, 1 >> }

Patrones == [e : 0..MaxEmpate, crudo : BOOLEAN]

\* A table that is no full grid: a locality without a row in one year.
Escenario ==
    << [Ano |-> 2020, Indicador |-> "HURTO A PERSONAS", Localidad |-> "BOSA", Valor |-> 10],
       [Ano |-> 2020, Indicador |-> "HURTO A PERSONAS", Localidad |-> "SUBA", Valor |-> 5],
       [Ano |-> 2021, Indicador |-> "HURTO A PERSONAS", Localidad |-> "BOSA", Valor |-> 3] >>

DataSets ==
    { Tabla(f[1], f[2], f[3], p) : f \in Formas, p \in Patrones } \cup { Escenario }

\* A file of another format (fields parted by "," and not by ";"): read_csv
\* does not raise, and gives one column named after the whole header line.
OtroFormato ==
    << [cabecera |-> "2020,HURTO A PERSONAS,BOSA,10"],
       [cabecera |-> "2021,HURTO A PERSONAS,BOSA,3"] >>

\* df["Ano"], df["Indicador"], ... do not raise KeyError.
TieneColumnas(d) ==
    \A k \in DOMAIN d : { "Ano", "Indicador", "Localidad", "Valor" } \subseteq DOMAIN d[k]

\* The tables the file is rewritten over while the process runs.
DataSetsCarga ==
    { Escenario, Tabla(2, 1, 1, [e |-> 0, crudo |-> TRUE]) }

\* Boundary files, as the sequence of the features' LOCNOMBRE: every
\* locality, spelled as the file spells it; and a file with few localities,
\* one of them twice.
MapaCompleto == [k \in 1..NumLocalidades |-> Crudas[k]]
MapaParcial == << Crudas[1], Localidades[1], Localidades[3] >>
Mapas == { MapaCompleto, MapaParcial }

\* A file of the disk: absent; present but not parseable (the read raises);
\* or present with its content.
Ausente == [existe |-> FALSE, legible |-> FALSE, contenido |-> << >>]
Corrupto == [existe |-> TRUE, legible |-> FALSE, contenido |-> << >>]
Presente(c) == [existe |-> TRUE, legible |-> TRUE, contenido |-> c]

\* A later export of the same table: one more row; of a file of another
\* format, the file put right.
Actualizada(c) ==
    IF TieneColumnas(c)
    THEN Append(c, [Ano |-> 2019 + NumAnos, Indicador |-> Indicadores[1],
                    Localidad |-> Localidades[2], Valor |-> 1])
    ELSE Escenario

\* ---------------------------------------------------------------- loaders
\* str.upper().str.strip() on the spellings of the model.
UpperStrip(s) ==
    IF \E k \in DOMAIN Crudas : Crudas[k] = s
    THEN Localidades[CHOOSE k \in DOMAIN Crudas : Crudas[k] = s]
    ELSE s

\* The body of cargar_datos: pd.read_csv(ruta, ...).
LeerDatos(contenido) == contenido

\* The body of cargar_mapa: gpd.read_file(ruta), then LOCNOMBRE normalised.
LeerMapa(contenido) ==
    [k \in DOMAIN contenido |-> [LOCNOMBRE |-> UpperStrip(contenido[k])]]

VacioCache == [lleno |-> FALSE, valor |-> << >>]

\* A loader without @st.cache_data: every call reads the file.
CacheDataSinMemo(cache, archivo, valor) ==
    IF ~archivo.existe
    THEN [ok |-> FALSE, valor |-> << >>, cache |-> cache, leyo |-> 0]
    ELSE IF ~archivo.legible
    THEN [ok |-> FALSE, valor |-> << >>, cache |-> cache, leyo |-> 1]
    ELSE [ok |-> TRUE, valor |-> valor,
          cache |-> [lleno |-> TRUE, valor |-> valor], leyo |-> 1]

\* A loader that catches the exception and returns an empty frame.
CacheDataTolerante(cache, archivo, valor) ==
    IF cache.lleno
    THEN [ok |-> TRUE, valor |-> cache.valor, cache |-> cache, leyo |-> 0]
    ELSE IF ~archivo.legible
    THEN [ok |-> TRUE, valor |-> << >>, cache |-> cache,
          leyo |-> IF archivo.existe THEN 1 ELSE 0]
    ELSE [ok |-> TRUE, valor |-> valor,
          cache |-> [lleno |-> TRUE, valor |-> valor], leyo |-> 1]

\* @st.cache_data around a loader without arguments: the stored value when
\* there is one; else the body runs, and its value is stored unless it
\* raises (an exception is not stored).  valor is what the body returns
\* when the file can be read; leyo counts the read of the file, which
\* happens when the file exists, parseable or not.
CacheData(cache, archivo, valor) ==
    IF cache.lleno
    THEN [ok |-> TRUE, valor |-> cache.valor, cache |-> cache, leyo |-> 0]
    ELSE IF ~archivo.existe
    THEN [ok |-> FALSE, valor |-> << >>, cache |-> cache, leyo |-> 0]
    ELSE IF ~archivo.legible
    THEN [ok |-> FALSE, valor |-> << >>, cache |-> cache, leyo |-> 1]
    ELSE [ok |-> TRUE, valor |-> valor,
          cache |-> [lleno |-> TRUE, valor |-> valor], leyo |-> 1]

\* ------------------------------------------------------ the script's steps
\* The year selectbox: "Todos" or one year.
Todos == [todos |-> TRUE, ano |-> 0]
Ano(y) == [todos |-> FALSE, ano |-> y]

\* The options of the three widgets, from the loaded table.
OpcionesAno(d) == { Todos } \cup { Ano(y) : y \in Unique(d, "Ano") }
OpcionesIndicador(d) == Unique(d, "Indicador")
OpcionesLocalidad(d) == Unique(d, "Localidad")

\* Filtrar without the filter of the year.
FiltrarSinAno(d, ano, indicadores, localidades) ==
    Isin(Isin(d, "Indicador", indicadores), "Localidad", localidades)

\* FILTRADO DE DATOS
Filtrar(d, ano, indicadores, localidades) ==
    LET d1 == Isin(d, "Indicador", indicadores)
        d2 == IF ano # Todos THEN AnoIgual(d1, ano.ano) ELSE d1
    IN  Isin(d2, "Localidad", localidades)

\* TotalDelitos with count() in the place of sum().
TotalDelitosCuenta(filtrado) == Len(filtrado)

\* int(df_filtrado["Valor"].sum())
TotalDelitos(filtrado) == Sum(Valores(filtrado))

\* AGREGACION PARA MAPA
DfMapa(filtrado) == GroupBySum(filtrado, "Localidad")

\* gdf.merge(df_mapa, left_on="LOCNOMBRE", right_on="Localidad", how="left"):
\* the rows of gdf in order, each with the rows of df_mapa of its name, or
\* once with NaN when there is none.
RECURSIVE MergeLeft(_, _)
MergeLeft(left, right) ==
    IF left = << >> THEN << >>
    ELSE LET g == left[1]
             m == SelectSeq(right, LAMBDA r : r.Localidad = g.LOCNOMBRE)
             rows == IF m = << >>
                     THEN << [LOCNOMBRE |-> g.LOCNOMBRE, Localidad |-> "NaN",
                              Valor |-> NaN] >>
                     ELSE [k \in DOMAIN m |->
                              [LOCNOMBRE |-> g.LOCNOMBRE,
                               Localidad |-> m[k].Localidad,
                               Valor |-> Frac(m[k].Valor, 1)]]
         IN  rows \o MergeLeft(Tail(left), right)

\* Without fillna(0).
SinFillna(x) == x

\* Series.fillna(0)
Fillna0(x) == IF x.nan THEN Frac(0, 1) ELSE x

\* UNION CON GEOJSON: the merge, the column Seleccion, Valor without NaN.
GdfMapa(g, mapa, localidades) ==
    LET m == MergeLeft(g, mapa)
    IN  [k \in DOMAIN m |->
            [LOCNOMBRE |-> m[k].LOCNOMBRE,
             Localidad |-> m[k].Localidad,
             Seleccion |-> m[k].LOCNOMBRE \in localidades,
             Valor |-> Fillna0(m[k].Valor)]]

\* DfBar with Ranking = index, without the + 1.
DfBarIndice(ordenado) ==
    LET h == HeadRows(ordenado, TopLocalidades)
    IN  [k \in DOMAIN h |->
            [Localidad |-> h[k].Localidad, Valor |-> h[k].Valor,
             Ranking |-> k - 1]]

\* TOP 10 LOCALIDADES: a sorted df_mapa cut to its head, the index reset,
\* Ranking = index + 1.
DfBar(ordenado) ==
    LET h == HeadRows(ordenado, TopLocalidades)
    IN  [k \in DOMAIN h |->
            [Localidad |-> h[k].Localidad, Valor |-> h[k].Valor,
             Ranking |-> (k - 1) + 1]]

\* DfDelitos without sort_values: the head of the groups in key order.
DfDelitosSinOrdenar(filtrado) ==
    { HeadRows(GroupBySum(filtrado, "Indicador"), TopIndicadores) }

\* LOS 3 TIPOS DE DELITOS MAS FRECUENTES: the possible df_delitos.
DfDelitos(filtrado) ==
    { HeadRows(o, TopIndicadores) :
        o \in SortValuesDesc(GroupBySum(filtrado, "Indicador")) }

\* DfTime from df_filtrado, as the other aggregations are.
DfTimeFiltrado(d, indicadores) == GroupBySum(df_filtrado', "Ano")

\* EVOLUCION DE LOS DELITOS EN EL TIEMPO: from df, not from df_filtrado.
DfTime(d, indicadores) == GroupBySum(Isin(d, "Indicador", indicadores), "Ano")

\* df_time.loc[df_time["Valor"].idxmax()]: the first row of the largest
\* Valor; no row (and st.info) when df_time is empty.
MaxRow(t) ==
    IF t = << >> THEN << >>
    ELSE LET k == CHOOSE i \in DOMAIN t :
                    /\ \A j \in DOMAIN t : t[j].Valor <= t[i].Valor
                    /\ \A j \in 1..(i - 1) : t[j].Valor < t[i].Valor
         IN  << t[k] >>

\* The x of the two fig_hist.add_vline calls.
Vlines(m, md) == << m, md >>

\* q3 + 1.5 * iqr
LimiteSuperior(c3, rango) == FracAdd(c3, FracMul(Frac(3, 2), rango))

\* Outliers with >= in the place of >.
OutliersIncluyente(mapa, limite) ==
    SelectSeq(mapa, LAMBDA r : ~FracGt(limite, Frac(r.Valor, 1)))

\* df_mapa[df_mapa["Valor"] > limite_superior]
Outliers(mapa, limite) ==
    SelectSeq(mapa, LAMBDA r : FracGt(Frac(r.Valor, 1), limite))

\* What a whole run renders ("header": st.sidebar.header; "sidebar": the
\* three filter widgets); st.info replaces the annotation of
\* the time chart when df_time is empty.
Pagina(t) ==
    { "title", "header", "sidebar", "metrics", "mapa", "bar", "delitos", "time", "hist",
      "box", "ranking", "tabla", "success" }
    \cup (IF t = << >> THEN { "info" } ELSE {})

\* ------------------------------------------------------- the state, grouped
discos == << archivoDatos, archivoMapa >>
caches == << cacheDatos, cacheMapa, lecturas, ultima >>
seleccion == << ano_sel, indicador_sel, localidad_sel >>
salidas ==
    << pc, pagina, df, gdf, df_filtrado, total_delitos, num_localidades,
       num_indicadores, df_mapa, gdf_mapa, df_bar, df_delitos, df_time, max_row,
       media, mediana, vlines, q1, q3, iqr, limite_superior, outliers >>
vars == << discos, caches, seleccion, salidas >>

\* Nothing computed: the values of a run that has not reached the step.
SinCalcular ==
    /\ df_filtrado' = << >>
    /\ total_delitos' = 0
    /\ num_localidades' = 0
    /\ num_indicadores' = 0
    /\ df_mapa' = << >>
    /\ gdf_mapa' = << >>
    /\ df_bar' = << >>
    /\ df_delitos' = << >>
    /\ df_time' = << >>
    /\ max_row' = << >>
    /\ media' = NaN
    /\ mediana' = NaN
    /\ vlines' = << >>
    /\ q1' = NaN
    /\ q3' = NaN
    /\ iqr' = NaN
    /\ limite_superior' = NaN
    /\ outliers' = << >>

Init ==
    /\ archivoDatos \in
          { Ausente, Corrupto, Presente(OtroFormato) }
          \cup { Presente(d) : d \in DataSets }
    /\ archivoMapa \in { Ausente, Corrupto } \cup { Presente(m) : m \in Mapas }
    /\ cacheDatos = VacioCache
    /\ cacheMapa = VacioCache
    /\ lecturas = [datos |-> 0, mapa |-> 0]
    /\ ultima = [datos |-> "none", mapa |-> "none"]
    /\ pc = "inicio"
    /\ pagina = {}
    /\ df = << >>
    /\ gdf = << >>
    /\ ano_sel = Todos
    /\ indicador_sel = {}
    /\ localidad_sel = {}
    /\ df_filtrado = << >>
    /\ total_delitos = 0
    /\ num_localidades = 0
    /\ num_indicadores = 0
    /\ df_mapa = << >>
    /\ gdf_mapa = << >>
    /\ df_bar = << >>
    /\ df_delitos = << >>
    /\ df_time = << >>
    /\ max_row = << >>
    /\ media = NaN
    /\ mediana = NaN
    /\ vlines = << >>
    /\ q1 = NaN
    /\ q3 = NaN
    /\ iqr = NaN
    /\ limite_superior = NaN
    /\ outliers = << >>

\* How a call of a loader went, seen from outside the loader.
Llamada(cache, archivo, valor) ==
    IF cache.lleno
    THEN IF archivo.legible /\ valor = cache.valor THEN "hit" ELSE "hit_stale"
    ELSE IF ~archivo.existe THEN "unavailable"
    ELSE IF ~archivo.legible THEN "unreadable"
    ELSE "miss"

\* The run stops with an exception: the page shows what was rendered
\* before it, and the widgets, never rendered, keep no value.
Detenido(visto) ==
    /\ pc' = "error"
    /\ pagina' = visto
    /\ ano_sel' = Todos
    /\ indicador_sel' = {}
    /\ localidad_sel' = {}
    /\ SinCalcular

\* One execution of the script: the loaders (lines 46-47), then the sidebar
\* (from line 52 on; the first df["Ano"] is at line 54), then the rest.  The
\* calls of the charting library are taken not to raise.  nuevo: the widgets have no value yet and
\* take their defaults; else they hold ano, indicadores, localidades.
Script(nuevo, ano, indicadores, localidades) ==
    LET rd == CacheData(cacheDatos, archivoDatos, LeerDatos(archivoDatos.contenido))
        rm == CacheData(cacheMapa, archivoMapa, LeerMapa(archivoMapa.contenido))
    IN
    /\ lecturas.datos + rd.leyo <= MaxLecturas
    /\ rd.ok => lecturas.mapa + rm.leyo <= MaxLecturas
    /\ UNCHANGED discos
    /\ cacheDatos' = rd.cache
    /\ IF ~rd.ok
       THEN /\ cacheMapa' = cacheMapa
            /\ lecturas' = [lecturas EXCEPT !.datos = @ + rd.leyo]
            /\ ultima' = [datos |-> Llamada(cacheDatos, archivoDatos,
                                            LeerDatos(archivoDatos.contenido)),
                          mapa |-> "none"]
            /\ df' = << >>
            /\ gdf' = << >>
            /\ Detenido({ "title" })
       ELSE
       /\ cacheMapa' = rm.cache
       /\ lecturas' = [datos |-> lecturas.datos + rd.leyo,
                       mapa |-> lecturas.mapa + rm.leyo]
       /\ ultima' = [datos |-> Llamada(cacheDatos, archivoDatos,
                                       LeerDatos(archivoDatos.contenido)),
                     mapa |-> Llamada(cacheMapa, archivoMapa,
                                      LeerMapa(archivoMapa.contenido))]
       /\ df' = rd.valor
       /\ IF ~rm.ok
          THEN /\ gdf' = << >>
               /\ Detenido({ "title" })
          ELSE IF ~TieneColumnas(df')
          THEN /\ gdf' = rm.valor
               /\ Detenido({ "title", "header" })
          ELSE
          /\ gdf' = rm.valor
          /\ ano_sel' = (IF nuevo THEN Todos ELSE ano)
          /\ indicador_sel' = (IF nuevo THEN OpcionesIndicador(df') ELSE indicadores)
          /\ localidad_sel' = (IF nuevo THEN OpcionesLocalidad(df') ELSE localidades)
          /\ df_filtrado' = Filtrar(df', ano_sel', indicador_sel', localidad_sel')
          /\ total_delitos' = TotalDelitos(df_filtrado')
          /\ num_localidades' = Nunique(df_filtrado', "Localidad")
          /\ num_indicadores' = Nunique(df_filtrado', "Indicador")
          /\ df_mapa' = DfMapa(df_filtrado')
          /\ gdf_mapa' = GdfMapa(gdf', df_mapa', localidad_sel')
          /\ \E o \in SortValuesDesc(df_mapa') : df_bar' = DfBar(o)
          /\ df_delitos' \in DfDelitos(df_filtrado')
          /\ df_time' = DfTime(df', indicador_sel')
          /\ max_row' = MaxRow(df_time')
          /\ media' = Mean(Valores(df_mapa'))
          /\ mediana' = Median(Valores(df_mapa'))
          /\ vlines' = Vlines(media', mediana')
          /\ q1' = Quantile(Valores(df_mapa'), 1)
          /\ q3' = Quantile(Valores(df_mapa'), 3)
          /\ iqr' = FracSub(q3', q1')
          /\ limite_superior' = LimiteSuperior(q3', iqr')
          /\ outliers' = Outliers(df_mapa', limite_superior')
          /\ pagina' = Pagina(df_time')
          /\ pc' = "done"

\* ----------------------------------------------------------------- actions
\* A multiselect value the model follows: few options, or all but few.
Permitida(S, opciones) ==
    /\ S \subseteq opciones
    /\ \/ Cardinality(S) <= MaxPocos
       \/ Cardinality(opciones \ S) <= MaxPocos

\* The first run of a session, and any re-run without a widget change.
Rerun == Script(pc # "done", ano_sel, indicador_sel, localidad_sel)

\* The user picks another year.
SelectAno ==
    /\ pc = "done"
    /\ \E a \in OpcionesAno(df) \ { ano_sel } :
          Script(FALSE, a, indicador_sel, localidad_sel)

\* What one click on a multiselect can make of its value S: one option
\* more, one option less, or none at all (the clear button).
Clicks(S, opciones) ==
    { T \in { (S \ {x}) \cup ({x} \ S) : x \in opciones } \cup { {} } :
        T # S /\ Permitida(T, opciones) }

\* The user changes "Tipo de delito".
SelectIndicador ==
    /\ pc = "done"
    /\ \E S \in Clicks(indicador_sel, OpcionesIndicador(df)) :
          Script(FALSE, ano_sel, S, localidad_sel)

\* The user changes "Localidades".
SelectLocalidad ==
    /\ pc = "done"
    /\ \E S \in Clicks(localidad_sel, OpcionesLocalidad(df)) :
          Script(FALSE, ano_sel, indicador_sel, S)

\* The environment: a file is removed, or written again, well or badly.
\* Once a table is loaded the model follows two later contents of its file:
\* the same table and the table with one more row.
BorrarDatos ==
    /\ archivoDatos.existe
    /\ archivoDatos' = Ausente
    /\ UNCHANGED << archivoMapa, caches, seleccion, salidas >>

EscribirDatos ==
    /\ \E c \in (IF cacheDatos.lleno
                 THEN { cacheDatos.valor, Actualizada(cacheDatos.valor) }
                 ELSE DataSetsCarga \cup { OtroFormato }) :
          /\ archivoDatos # Presente(c)
          /\ archivoDatos' = Presente(c)
    /\ UNCHANGED << archivoMapa, caches, seleccion, salidas >>

CorromperDatos ==
    /\ archivoDatos # Corrupto
    /\ archivoDatos' = Corrupto
    /\ UNCHANGED << archivoMapa, caches, seleccion, salidas >>

BorrarMapa ==
    /\ archivoMapa.existe
    /\ archivoMapa' = Ausente
    /\ UNCHANGED << archivoDatos, caches, seleccion, salidas >>

EscribirMapa ==
    /\ \E c \in Mapas :
          /\ archivoMapa # Presente(c)
          /\ archivoMapa' = Presente(c)
    /\ UNCHANGED << archivoDatos, caches, seleccion, salidas >>

CorromperMapa ==
    /\ archivoMapa # Corrupto
    /\ archivoMapa' = Corrupto
    /\ UNCHANGED << archivoDatos, caches, seleccion, salidas >>

\* A session: the script runs, first and after every widget change.
Sesion ==
    \/ Rerun
    \/ SelectAno
    \/ SelectIndicador
    \/ SelectLocalidad

\* The files change under the running process.
Entorno ==
    \/ BorrarDatos
    \/ EscribirDatos
    \/ CorromperDatos
    \/ BorrarMapa
    \/ EscribirMapa
    \/ CorromperMapa

Next == Sesion \/ Entorno

\* The whole system, files changing under it, over the tables of
\* DataSetsCarga.
InitCarga ==
    /\ Init
    /\ archivoDatos.legible =>
          archivoDatos.contenido \in DataSetsCarga \cup { OtroFormato }

Spec == InitCarga /\ [][Next]_vars

\* The sessions over every table of DataSets, the files left alone.
SpecDatos == Init /\ [][Sesion]_vars

\* ------------------------------------------------------------------ claims
\* The sum of Valor over the rows of d at the positions S.
RECURSIVE SumaEn(_, _)
SumaEn(d, S) ==
    IF S = {} THEN 0
    ELSE LET k == CHOOSE x \in S : TRUE IN d[k].Valor + SumaEn(d, S \ {k})

\* How many rows of d equal r.
Veces(d, r) == Cardinality({ k \in DOMAIN d : d[k] = r })

\* The rows of d are in descending order of Valor.
Descendente(d) == \A i, j \in DOMAIN d : i < j => d[i].Valor >= d[j].Valor

Hecho == pc = "done"

\* C1: after a run, every row of df_filtrado is a row of the loaded table
\* (none more often than there), its indicator is among the selected ones,
\* its year is the selected one unless the selection is "Todos", and its
\* locality is among the selected ones.
C1_Filtrado ==
    Hecho =>
        \A k \in DOMAIN df_filtrado :
            LET r == df_filtrado[k]
            IN  /\ Veces(df_filtrado, r) <= Veces(df, r)
                /\ Veces(df, r) > 0
                /\ r.Indicador \in indicador_sel
                /\ ano_sel = Todos \/ r.Ano = ano_sel.ano
                /\ r.Localidad \in localidad_sel

\* A run where each of the three filters has removed rows and rows remain.
C1_Witness ==
    /\ Hecho
    /\ df_filtrado # << >>
    /\ ano_sel # Todos
    /\ \E k \in DOMAIN df : df[k].Ano # ano_sel.ano
    /\ \E k \in DOMAIN df : df[k].Indicador \notin indicador_sel
    /\ \E k \in DOMAIN df : df[k].Localidad \notin localidad_sel

C3_Delitos ==
    Hecho =>
        LET total(i) ==
                SumaEn(df_filtrado,
                       { k \in DOMAIN df_filtrado : df_filtrado[k].Indicador = i })
            dentro == { df_delitos[k].Indicador : k \in DOMAIN df_delitos }
            fuera == { df_filtrado[k].Indicador : k \in DOMAIN df_filtrado } \ dentro
        IN  /\ Len(df_delitos) <= 3
            /\ Cardinality(dentro) = Len(df_delitos)
            /\ \A k \in DOMAIN df_delitos :
                  /\ \E j \in DOMAIN df_filtrado :
                        df_filtrado[j].Indicador = df_delitos[k].Indicador
                  /\ df_delitos[k].Valor = total(df_delitos[k].Indicador)
                  /\ \A i \in fuera : total(i) <= df_delitos[k].Valor
            /\ Descendente(df_delitos)
            /\ fuera # {} => Len(df_delitos) = 3

\* A run with more than 3 indicators in several localities: one is cut.
C3_Witness ==
    /\ Hecho
    /\ num_indicadores > 3
    /\ num_localidades > 1
    /\ Len(df_delitos) = 3
    /\ df_delitos[1].Valor > df_delitos[3].Valor

\* df_time is what df and the selected indicators alone give: one row per
\* year of a row of df with a selected indicator, years ascending, Valor
\* the sum over all such rows of the year.
TiempoEsperado ==
    LET filas(y) ==
            { k \in DOMAIN df : df[k].Indicador \in indicador_sel /\ df[k].Ano = y }
        anos == { df[k].Ano : k \in { j \in DOMAIN df : df[j].Indicador \in indicador_sel } }
    IN  /\ { df_time[k].Ano : k \in DOMAIN df_time } = anos
        /\ Len(df_time) = Cardinality(anos)
        /\ \A i, j \in DOMAIN df_time : i < j => df_time[i].Ano < df_time[j].Ano
        /\ \A k \in DOMAIN df_time : df_time[k].Valor = SumaEn(df, filas(df_time[k].Ano))

\* C4: a run that follows a run with the same selected indicators, whatever
\* became of the year and the localities selected, leaves df_time as it
\* was; and after every run df_time is TiempoEsperado.
C4_Tiempo ==
    /\ [](Hecho => TiempoEsperado)
    /\ [][ (Hecho /\ pc' = "done" /\ indicador_sel' = indicador_sel)
              => df_time' = df_time ]_vars

\* A year and not every locality selected, rows of other years in df_time.
C4_Witness ==
    /\ Hecho
    /\ ano_sel # Todos
    /\ \E k \in DOMAIN df : df[k].Localidad \notin localidad_sel
    /\ Len(df_time) >= 2
    /\ SumaEn(df_time, DOMAIN df_time) > total_delitos
    /\ total_delitos > 0

\* C5: after a run that keeps no row, the metrics are 0 and no x handed to
\* fig_hist.add_vline is NaN (the statistics of the empty df_mapa are cut
\* short instead of being drawn).
C5_Vacio ==
    (Hecho /\ df_filtrado = << >>) =>
        /\ total_delitos = 0
        /\ num_localidades = 0
        /\ num_indicadores = 0
        /\ \A k \in DOMAIN vlines : ~vlines[k].nan

\* C6: after a run with one locality in df_mapa, of total v: q1 = q3 = v,
\* iqr = 0, limite_superior = v, and outliers is empty.
C6_Unica ==
    (Hecho /\ Len(df_mapa) = 1) =>
        LET v == Frac(df_mapa[1].Valor, 1)
        IN  /\ FracEq(q1, v)
            /\ FracEq(q3, v)
            /\ FracEq(iqr, Frac(0, 1))
            /\ FracEq(limite_superior, v)
            /\ outliers = << >>

\* One locality, of several rows and a total above 0.
C6_Witness ==
    /\ Hecho
    /\ Len(df_mapa) = 1
    /\ Len(df_filtrado) > 1
    /\ df_mapa[1].Valor > 0

\* C7: after a run, gdf_mapa has the rows of gdf, in order; the Valor of a
\* row is the total of its locality in df_mapa, and 0 (not NaN) when
\* df_mapa has no such locality; a locality of df_mapa that gdf does not
\* have is in no row, so that nothing of it is drawn.  The run ends well.
C7_Mapa ==
    Hecho =>
        /\ Len(gdf_mapa) = Len(gdf)
        /\ "mapa" \in pagina /\ "success" \in pagina
        /\ \A k \in DOMAIN gdf_mapa :
              LET n == gdf[k].LOCNOMBRE
                  en == { j \in DOMAIN df_mapa : df_mapa[j].Localidad = n }
              IN  /\ gdf_mapa[k].LOCNOMBRE = n
                  /\ ~gdf_mapa[k].Valor.nan
                  /\ FracEq(gdf_mapa[k].Valor, Frac(SumaEn(df_mapa, en), 1))
        /\ \A j \in DOMAIN df_mapa :
              (\A k \in DOMAIN gdf : gdf[k].LOCNOMBRE # df_mapa[j].Localidad) =>
                  \A k \in DOMAIN gdf_mapa :
                      /\ gdf_mapa[k].LOCNOMBRE # df_mapa[j].Localidad
                      /\ gdf_mapa[k].Localidad # df_mapa[j].Localidad

\* A boundary locality without a total, a locality with a total above 0
\* and without a boundary, and a boundary locality with its total.
C7_Witness ==
    /\ Hecho
    /\ \E k \in DOMAIN gdf :
          \A j \in DOMAIN df_mapa : df_mapa[j].Localidad # gdf[k].LOCNOMBRE
    /\ \E j \in DOMAIN df_mapa :
          /\ df_mapa[j].Valor > 0
          /\ \A k \in DOMAIN gdf : gdf[k].LOCNOMBRE # df_mapa[j].Localidad
    /\ \E k \in DOMAIN gdf_mapa : FracGt(gdf_mapa[k].Valor, Frac(0, 1))

Fallo ==
    \/ ultima.datos \in { "unavailable", "unreadable" }
    \/ ultima.mapa \in { "unavailable", "unreadable" }
    \/ pc # "inicio" /\ ultima.datos # "none" /\ ~TieneColumnas(df)

\* C9: a run in which a load fails stops before the filter widgets: it
\* renders no widget, metric, chart or table and not the final message,
\* and computes none of the frames.
C9_Fallo ==
    Fallo =>
        /\ pc = "error"
        /\ pagina \subseteq { "title", "header" }
        /\ df_filtrado = << >> /\ df_mapa = << >> /\ gdf_mapa = << >>
        /\ df_bar = << >> /\ df_delitos = << >> /\ df_time = << >>
        /\ vlines = << >> /\ outliers = << >>
        /\ total_delitos = 0

\* The table is loaded, with its columns, and the boundary file does not
\* parse.
C9_Witness ==
    /\ ultima = [datos |-> "miss", mapa |-> "unreadable"]
    /\ df # << >>
    /\ TieneColumnas(df)
    /\ cacheDatos.lleno
    /\ pc = "error"

\* C10: after a run, df_bar has min(10, rows of df_mapa) rows, each a row
\* of df_mapa and no locality twice, in descending order of Valor, Ranking
\* 1, 2, ... in that order; and no locality left out has a larger total
\* than a locality of df_bar.
C10_Ranking ==
    Hecho =>
        LET dentro == { df_bar[k].Localidad : k \in DOMAIN df_bar }
        IN  /\ Len(df_bar) = (IF Len(df_mapa) < 10 THEN Len(df_mapa) ELSE 10)
            /\ Cardinality(dentro) = Len(df_bar)
            /\ \A k \in DOMAIN df_bar :
                  /\ df_bar[k].Ranking = k
                  /\ \E j \in DOMAIN df_mapa :
                        /\ df_mapa[j].Localidad = df_bar[k].Localidad
                        /\ df_mapa[j].Valor = df_bar[k].Valor
                  /\ \A j \in DOMAIN df_mapa :
                        df_mapa[j].Localidad \notin dentro =>
                            df_mapa[j].Valor <= df_bar[k].Valor
            /\ Descendente(df_bar)

\* More than 10 localities: one is left out of the 10 rows.
C10_Witness ==
    /\ Hecho
    /\ Len(df_mapa) > 10
    /\ Len(df_bar) = 10
    /\ df_bar[1].Valor > df_bar[10].Valor

====
